---- MODULE Spec2Model ----
(***************************************************************************)
(* State-machine model of the Strava activity tools: the counter           *)
(* (src/unnamed/part_000), the extended counter                            *)
(* (src/strava-activity-counter.go), the renamer (src/unnamed/part_001),   *)
(* the whitespace normalizer (the program appended to src/README.MD) and   *)
(* the single-activity updater (src/strava-activity-updater.go), together  *)
(* with the packages auth (src/auth/strava.go) and strava                  *)
(* (src/strava/api.go, src/strava/types.go) they share.                    *)
(*                                                                         *)
(* Activity names are sequences of one-character strings, so that exact    *)
(* comparison, map lookup and strings.TrimSpace are computed on the        *)
(* characters.  Tokens, client credentials and sport types are only ever   *)
(* compared with "" or with literals and are plain strings.                *)
(***************************************************************************)
EXTENDS FiniteSets, Integers, Sequences, TLC

\* ------------------------------------------------------------------ bounds
\* The server holds up to MaxFullPages full pages (plus a partial page).
MaxFullPages == 3
\* The wall clock runs from 1 to MaxTime.
MaxTime == 2
\* Number of program invocations in the specification SpecTwice.
MaxRuns == 2

\* ------------------------------------------------------- program constants
\* perPage := 200 in GetAllActivities / getAllActivities.
perPage == 200

\* ------------------------------------------------------------ name strings
Pickup_ice_Hockey == <<"P", "i", "c", "k", "u", "p", " ", "i", "c", "e", " ", "H", "o", "c", "k", "e", "y">>
Pickup_Ice_Hockey == <<"P", "i", "c", "k", "u", "p", " ", "I", "c", "e", " ", "H", "o", "c", "k", "e", "y">>
Private_Training_Workout == <<"P", "r", "i", "v", "a", "t", "e", " ", "T", "r", "a", "i", "n", "i", "n", "g", " ", "W", "o", "r", "k", "o", "u", "t">>
Private_Training_Session == <<"P", "r", "i", "v", "a", "t", "e", " ", "T", "r", "a", "i", "n", "i", "n", "g", " ", "S", "e", "s", "s", "i", "o", "n">>
Workout_w_Trainer == <<"W", "o", "r", "k", "o", "u", "t", " ", "w", "/", "T", "r", "a", "i", "n", "e", "r">>
Workout == <<"W", "o", "r", "k", "o", "u", "t">>
Gym_Workout == <<"G", "y", "m", " ", "W", "o", "r", "k", "o", "u", "t">>
Gym_Workou == <<"G", "y", "m", " ", "W", "o", "r", "k", "o", "u">>
Morning_Workout == <<"M", "o", "r", "n", "i", "n", "g", " ", "W", "o", "r", "k", "o", "u", "t">>
workout_lower == <<"w", "o", "r", "k", "o", "u", "t">>
Workout_leading == <<" ", "W", "o", "r", "k", "o", "u", "t">>
Hockey_trailing == <<"P", "i", "c", "k", "u", "p", " ", "i", "c", "e", " ", "H", "o", "c", "k", "e", "y", " ">>
Blank == <<" ", " ">>
Run == <<"R", "u", "n">>

\* ------------------------------------------------------------- name table
\* Faulty variant of nameMappings: the value of "Workout" is misspelt into
\* "Gym Workou", which is a key.
nameMappings_chained ==
    (Pickup_ice_Hockey :> Pickup_Ice_Hockey) @@
    (Private_Training_Workout :> Private_Training_Session) @@
    (Workout_w_Trainer :> Private_Training_Session) @@
    (Workout :> Gym_Workou) @@
    (Gym_Workou :> Gym_Workout)

\* var nameMappings = map[string]string{...} of the renamer.
nameMappings ==
    (Pickup_ice_Hockey :> Pickup_Ice_Hockey) @@
    (Private_Training_Workout :> Private_Training_Session) @@
    (Workout_w_Trainer :> Private_Training_Session) @@
    (Workout :> Gym_Workout) @@
    (Gym_Workou :> Gym_Workout)

\* ------------------------------------------------------- strings.TrimSpace
\* unicode.IsSpace on the characters the model uses.
IsSpace(c) == c \in {" ", "\t", "\n", "\r", "\f"}

RECURSIVE TrimLeft(_)
TrimLeft(s) ==
    IF s = <<>> THEN <<>>
    ELSE IF IsSpace(Head(s)) THEN TrimLeft(Tail(s)) ELSE s

RECURSIVE TrimRight(_)
TrimRight(s) ==
    IF s = <<>> THEN <<>>
    ELSE IF IsSpace(s[Len(s)]) THEN TrimRight(SubSeq(s, 1, Len(s) - 1)) ELSE s

\* strings.TrimSpace: the string without its leading and trailing white space.
TrimSpace(s) == TrimRight(TrimLeft(s))

\* ------------------------------------------------ strava.ActivityUpdate
\* ActivityUpdate{Name, SportType, Description}; an unset field is the zero
\* string.
ActivityUpdate(name, sportType, description) ==
    [Name |-> name, SportType |-> sportType, Description |-> description]

\* json.Marshal(update) with the omitempty tags: the JSON object holds
\* exactly the fields whose value is not the empty string.
MarshalUpdate(u) ==
    LET present == (IF u.Name = <<>> THEN {} ELSE {"name"})
                   \cup (IF u.SportType = "" THEN {} ELSE {"sport_type"})
                   \cup (IF u.Description = "" THEN {} ELSE {"description"})
    IN  [k \in present |-> IF k = "name" THEN u.Name
                           ELSE IF k = "sport_type" THEN u.SportType
                           ELSE u.Description]

\* ------------------------------------------------------ the test server
\* Sample activities (name, sport type) the server's data is drawn from.
ActivityPool ==
    << [Name |-> Gym_Workou,      SportType |-> "WeightTraining"],
       [Name |-> Workout,         SportType |-> "Workout"],
       [Name |-> workout_lower,   SportType |-> "Workout"],
       [Name |-> Workout_leading, SportType |-> "Workout"],
       [Name |-> Hockey_trailing, SportType |-> "IceSkate"],
       [Name |-> Blank,           SportType |-> "Run"],
       [Name |-> Morning_Workout, SportType |-> "Workout"],
       [Name |-> Morning_Workout, SportType |-> "Run"],
       [Name |-> Gym_Workout,     SportType |-> "Workout"] >>

Seeds == 0 .. (Len(ActivityPool) - 1)

\* Numbers of activities a server may hold: full pages plus 0 or 47.
ServerCounts == { perPage * k + r : k \in 0 .. MaxFullPages, r \in {0, 47} }

\* The servers of the model, as << number of activities, seed >>: every
\* number of activities with the first samples, and every choice of samples
\* on a server of one page and on a server of two pages.
Servers ==
    { sv \in ServerCounts \X Seeds : sv[2] = 0 \/ sv[1] \in {47, perPage + 47} }

\* Config files the first run may find on disk.  ok = FALSE is a missing or
\* unparsable file.
Config(id, secret, refresh, access, expires) ==
    [ClientID |-> id, ClientSecret |-> secret, RefreshToken |-> refresh,
     AccessToken |-> access, ExpiresAt |-> expires]

EmptyConfig == Config("", "", "", "", 0)

ConfigFiles ==
    { [ok |-> FALSE, cfg |-> EmptyConfig],
      [ok |-> TRUE, cfg |-> Config("id", "secret", "r0", "", 0)],
      [ok |-> TRUE, cfg |-> Config("id", "secret", "r0", "a0", 2)],
      [ok |-> TRUE, cfg |-> Config("id", "secret", "r0", "a0", MaxTime + 1)],
      [ok |-> TRUE, cfg |-> Config("", "secret", "r0", "a0", 1)],
      [ok |-> TRUE, cfg |-> Config("id", "", "r0", "", MaxTime + 1)],
      [ok |-> TRUE, cfg |-> Config("id", "secret", "", "a0", MaxTime + 1)] }

\* Bodies the token endpoint may answer with status 200: fresh tokens, or
\* the empty JSON object (every field decodes to its zero value).
TokenResponses ==
    { [AccessToken |-> "a1", RefreshToken |-> "r1", ExpiresAt |-> MaxTime + 1],
      [AccessToken |-> "", RefreshToken |-> "", ExpiresAt |-> 0] }

\* What the network does with one request.
HttpOutcomes == {"ok", "transport", "status", "decode"}

Entries == {"counter", "counterExt", "renamer", "normalizer", "updater"}

\* ------------------------------------------------------------------ state
VARIABLES
    entry,              \* which program runs
    dryRun,             \* -dry-run flag (renamer, normalizer; default TRUE)
    apiKey,             \* -api-key flag ("" when not given)
    file,               \* the config file on disk
    now,                \* the wall clock, time.Now().Unix()
    serverCount,        \* number of activities the server holds
    seed,               \* which sample activities the server holds
    serverEdits,        \* activities changed on the server by PUT requests
    pc,                 \* position of main
    config,             \* *StravaConfig of main
    page,               \* page of GetAllActivities
    allActivities,      \* allActivities of GetAllActivities
    activities,         \* activities of main (the list, or the latest one)
    activitiesToUpdate, \* activitiesToUpdate of main
    idx,                \* position of the apply loop in activitiesToUpdate
    report,             \* the lines the counters print
    tokenPosts,         \* POST /oauth/token requests sent
    ensurePre,          \* the record as EnsureValidToken received it
    ensureErr,          \* what EnsureValidToken returned
    ensureAt,           \* the time EnsureValidToken read
    tokenAnswer,        \* what the token endpoint answered
    pageRequests,       \* page numbers of the GET requests of the list
    latestRequests,     \* GET requests with per_page=1
    fetchErr,           \* what the fetch returned
    updateLog,          \* PUT requests sent: id, JSON body, result
    fileReads,          \* os.ReadFile calls on the config file
    fileWrites,         \* os.WriteFile calls on the config file
    runNo,              \* number of the current invocation
    lastRun             \* what the previous invocation did

vars == << entry, dryRun, apiKey, file, now, serverCount, seed, serverEdits,
           pc, config, page, allActivities, activities, activitiesToUpdate,
           idx, report, tokenPosts, ensurePre, ensureErr, ensureAt,
           tokenAnswer, pageRequests, latestRequests, fetchErr, updateLog,
           fileReads, fileWrites, runNo, lastRun >>

inputVars == << entry, dryRun, apiKey >>
serverVars == << serverCount, seed, serverEdits >>
fetchVars == << page, allActivities, activities, pageRequests, latestRequests,
                fetchErr >>
tokenVars == << tokenPosts, ensurePre, ensureErr, ensureAt, tokenAnswer >>
applyVars == << activitiesToUpdate, idx, updateLog >>
runVars == << runNo, lastRun >>

\* --------------------------------------------------------------- server
Min(a, b) == IF a < b THEN a ELSE b
Max(a, b) == IF a > b THEN a ELSE b

\* The positions of the server's list that hold a sample activity: the two
\* latest and the oldest.  Every other activity is a plain run.
SpecialRank(pos) == IF pos = 1 THEN 0 ELSE IF pos = 2 THEN 1 ELSE 2

OriginalActivity(pos) ==
    IF pos \in {1, 2, serverCount}
    THEN LET sample == ActivityPool[((seed + SpecialRank(pos)) % Len(ActivityPool)) + 1]
         IN  [ID |-> pos, Name |-> sample.Name, SportType |-> sample.SportType,
              Description |-> ""]
    ELSE [ID |-> pos, Name |-> Run, SportType |-> "Run", Description |-> ""]

\* The activity at a position of the server's list (latest first).
ServerActivity(pos) ==
    IF pos \in DOMAIN serverEdits THEN serverEdits[pos] ELSE OriginalActivity(pos)

\* GET /athlete/activities?per_page=per&page=p
ServerPage(per, p) ==
    LET lo == (p - 1) * per
        n  == Max(0, Min(per, serverCount - lo))
    IN  [i \in 1 .. n |-> ServerActivity(lo + i)]

\* PUT /activities/{id}: the fields present in the body replace the stored
\* ones, absent fields stay as they are.
ServerPut(id, body) ==
    LET a == ServerActivity(id)
        b == [ID |-> a.ID,
              Name |-> IF "name" \in DOMAIN body THEN body["name"] ELSE a.Name,
              SportType |-> IF "sport_type" \in DOMAIN body
                            THEN body["sport_type"] ELSE a.SportType,
              Description |-> IF "description" \in DOMAIN body
                              THEN body["description"] ELSE a.Description]
    IN  (id :> b) @@ serverEdits

\* ------------------------------------------------------------ package auth
\* Faulty variant of NeedsRefresh: refreshes one second early.
NeedsRefresh_early(c, t) == c.AccessToken = "" \/ t + 1 >= c.ExpiresAt

\* The test of EnsureValidToken: the token is missing or has expired.
NeedsRefresh(c, t) == c.AccessToken = "" \/ t >= c.ExpiresAt

\* Faulty variant of MissingCredentials: the client secret is not checked.
MissingCredentials_idOnly(c) == c.ClientID = ""

\* The test RefreshToken starts with.
MissingCredentials(c) == c.ClientID = "" \/ c.ClientSecret = ""

\* Faulty variant of StoreToken: the refresh token is not stored.
StoreToken_partial(c, resp) ==
    [c EXCEPT !.AccessToken = resp.AccessToken, !.ExpiresAt = resp.ExpiresAt]

\* The three assignments RefreshToken ends with.
StoreToken(c, resp) ==
    [c EXCEPT !.AccessToken = resp.AccessToken,
              !.RefreshToken = resp.RefreshToken,
              !.ExpiresAt = resp.ExpiresAt]

\* Faulty variant of RefreshToken: client id and secret are not checked.
RefreshToken_unchecked(c, net, resp) ==
    IF net = "transport" THEN [config |-> c, err |-> "transport", posts |-> 1]
    ELSE IF net = "status" THEN [config |-> c, err |-> "auth", posts |-> 1]
    ELSE IF net = "decode" THEN [config |-> c, err |-> "decode", posts |-> 1]
    ELSE [config |-> StoreToken(c, resp), err |-> "none", posts |-> 1]

\* RefreshToken(config), given what the network does with the POST (net) and
\* the body of a 200 answer (resp): the record afterwards, the error
\* returned and the number of requests sent to the token endpoint.
RefreshToken(c, net, resp) ==
    IF MissingCredentials(c) THEN [config |-> c, err |-> "config", posts |-> 0]
    ELSE IF net = "transport" THEN [config |-> c, err |-> "transport", posts |-> 1]
    ELSE IF net = "status" THEN [config |-> c, err |-> "auth", posts |-> 1]
    ELSE IF net = "decode" THEN [config |-> c, err |-> "decode", posts |-> 1]
    ELSE [config |-> StoreToken(c, resp), err |-> "none", posts |-> 1]

\* EnsureValidToken(config) called at time t.
EnsureValidToken(c, t, net, resp) ==
    IF NeedsRefresh(c, t) THEN RefreshToken(c, net, resp)
    ELSE [config |-> c, err |-> "none", posts |-> 0]

\* LoadConfig(filename): the record of the file, or an error.
LoadConfig(f) == [config |-> f.cfg, err |-> ~f.ok]

\* SaveConfig(filename, config), given what the file system does with the
\* write: the file afterwards.  A write that fails (the file cannot be
\* opened for writing) leaves the file as it was.
SaveConfig(f, c, fs) == IF fs = "ok" THEN [ok |-> TRUE, cfg |-> c] ELSE f

\* ------------------------------------- the copies of the updater program
needsRefresh(c, t) == c.AccessToken = "" \/ t >= c.ExpiresAt

missingCredentials(c) == c.ClientID = "" \/ c.ClientSecret = ""

storeToken(c, resp) ==
    [c EXCEPT !.AccessToken = resp.AccessToken,
              !.RefreshToken = resp.RefreshToken,
              !.ExpiresAt = resp.ExpiresAt]

refreshToken(c, net, resp) ==
    IF missingCredentials(c) THEN [config |-> c, err |-> "config", posts |-> 0]
    ELSE IF net = "transport" THEN [config |-> c, err |-> "transport", posts |-> 1]
    ELSE IF net = "status" THEN [config |-> c, err |-> "auth", posts |-> 1]
    ELSE IF net = "decode" THEN [config |-> c, err |-> "decode", posts |-> 1]
    ELSE [config |-> storeToken(c, resp), err |-> "none", posts |-> 1]

ensureValidToken(c, t, net, resp) ==
    IF needsRefresh(c, t) THEN refreshToken(c, net, resp)
    ELSE [config |-> c, err |-> "none", posts |-> 0]

loadConfig(f) == [config |-> f.cfg, err |-> ~f.ok]

saveConfig(f, c, fs) == IF fs = "ok" THEN [ok |-> TRUE, cfg |-> c] ELSE f

\* ------------------------------------------------------------------- Init
NoRun ==
    [entry |-> "none", dryRun |-> TRUE, applied |-> FALSE, queued |-> 0,
     failed |-> {}]

\* No request was sent to the token endpoint.
NoAnswer ==
    [net |-> "none", body |-> [AccessToken |-> "", RefreshToken |-> "", ExpiresAt |-> 0]]

\* The state of main before its first statement.
Fresh ==
    [pc |-> "load",
     config |-> EmptyConfig,
     page |-> 1,
     allActivities |-> <<>>,
     activities |-> <<>>,
     activitiesToUpdate |-> <<>>,
     idx |-> 1,
     report |-> [names |-> <<>>, sports |-> <<>>],
     tokenPosts |-> 0,
     ensurePre |-> EmptyConfig,
     ensureErr |-> "notrun",
     ensureAt |-> 0,
     tokenAnswer |-> NoAnswer,
     pageRequests |-> <<>>,
     latestRequests |-> 0,
     fetchErr |-> "none",
     updateLog |-> <<>>,
     fileReads |-> 0,
     fileWrites |-> 0]

\* The command lines: -dry-run exists in the renamer and the normalizer.
CommandLine(e, d, k) ==
    /\ e \in Entries
    /\ d \in (IF e \in {"renamer", "normalizer"} THEN BOOLEAN ELSE {TRUE})
    /\ k \in {"", "key"}

Init ==
    /\ CommandLine(entry, dryRun, apiKey)
    /\ file \in ConfigFiles
    /\ now = 1
    /\ \E sv \in Servers : serverCount = sv[1] /\ seed = sv[2]
    /\ serverEdits = <<>>
    /\ runNo = 1
    /\ lastRun = NoRun
    /\ pc = Fresh.pc
    /\ config = Fresh.config
    /\ page = Fresh.page
    /\ allActivities = Fresh.allActivities
    /\ activities = Fresh.activities
    /\ activitiesToUpdate = Fresh.activitiesToUpdate
    /\ idx = Fresh.idx
    /\ report = Fresh.report
    /\ tokenPosts = Fresh.tokenPosts
    /\ ensurePre = Fresh.ensurePre
    /\ ensureErr = Fresh.ensureErr
    /\ ensureAt = Fresh.ensureAt
    /\ tokenAnswer = Fresh.tokenAnswer
    /\ pageRequests = Fresh.pageRequests
    /\ latestRequests = Fresh.latestRequests
    /\ fetchErr = Fresh.fetchErr
    /\ updateLog = Fresh.updateLog
    /\ fileReads = Fresh.fileReads
    /\ fileWrites = Fresh.fileWrites

\* ------------------------------------------------ main, up to the fetch
\* main: LoadConfig with the fallback to an empty record, the -api-key
\* override and the check of the refresh token.
Main_LoadConfig ==
    /\ pc = "load"
    /\ LET r  == IF entry = "updater" THEN loadConfig(file) ELSE LoadConfig(file)
           c0 == IF r.err THEN EmptyConfig ELSE r.config
           c1 == IF apiKey # "" THEN [c0 EXCEPT !.RefreshToken = apiKey] ELSE c0
       IN  /\ config' = c1
           /\ pc' = IF c1.RefreshToken = "" THEN "fatal" ELSE "ensure"
    /\ fileReads' = fileReads + 1
    /\ UNCHANGED << inputVars, file, now, serverVars, fetchVars, tokenVars,
                    applyVars, report, fileWrites, runVars >>

\* main: EnsureValidToken(config); an error is fatal.
Main_EnsureValidToken ==
    /\ pc = "ensure"
    /\ \E net \in HttpOutcomes, resp \in TokenResponses :
         LET r == IF entry = "updater"
                  THEN ensureValidToken(config, now, net, resp)
                  ELSE EnsureValidToken(config, now, net, resp)
         IN  /\ config' = r.config
             /\ ensureErr' = r.err
             /\ tokenPosts' = tokenPosts + r.posts
             /\ tokenAnswer' = IF r.posts = 0 THEN NoAnswer
                               ELSE IF net = "ok" THEN [net |-> net, body |-> resp]
                               ELSE [NoAnswer EXCEPT !.net = net]
             /\ pc' = IF r.err = "none" THEN "save" ELSE "fatal"
    /\ ensurePre' = config
    /\ ensureAt' = now
    /\ UNCHANGED << inputVars, file, now, serverVars, fetchVars, applyVars,
                    report, fileReads, fileWrites, runVars >>

\* Faulty variant of Main_SaveConfig: a failed save ends the run.
Main_SaveConfig_fatal ==
    /\ pc = "save"
    /\ \E fs \in {"ok", "unopened"} :
         /\ file' = IF entry = "updater" THEN saveConfig(file, config, fs)
                    ELSE SaveConfig(file, config, fs)
         /\ pc' = IF fs # "ok" THEN "fatal"
                  ELSE IF entry = "updater" THEN "latest" ELSE "fetch"
    /\ fileWrites' = fileWrites + 1
    /\ UNCHANGED << inputVars, now, serverVars, config, fetchVars, tokenVars,
                    applyVars, report, fileReads, runVars >>

\* Faulty variant of Main_SaveConfig: the file is written only after a
\* refresh.
Main_SaveConfig_onlyRefreshed ==
    /\ pc = "save"
    /\ \E fs \in {"ok", "unopened"} :
         file' = IF tokenPosts = 0 THEN file
                 ELSE IF entry = "updater" THEN saveConfig(file, config, fs)
                 ELSE SaveConfig(file, config, fs)
    /\ fileWrites' = IF tokenPosts = 0 THEN fileWrites ELSE fileWrites + 1
    /\ pc' = IF entry = "updater" THEN "latest" ELSE "fetch"
    /\ UNCHANGED << inputVars, now, serverVars, config, fetchVars, tokenVars,
                    applyVars, report, fileReads, runVars >>

\* main: SaveConfig(config); an error is only a warning.
Main_SaveConfig ==
    /\ pc = "save"
    /\ \E fs \in {"ok", "unopened"} :
         file' = IF entry = "updater" THEN saveConfig(file, config, fs)
                 ELSE SaveConfig(file, config, fs)
    /\ fileWrites' = fileWrites + 1
    /\ pc' = IF entry = "updater" THEN "latest" ELSE "fetch"
    /\ UNCHANGED << inputVars, now, serverVars, config, fetchVars, tokenVars,
                    applyVars, report, fileReads, runVars >>

\* ---------------------------------------------------------- package strava
\* Faulty variant of ReachedEnd: a full page ends the loop too.
ReachedEnd_inclusive(acts) == Len(acts) <= perPage

\* The test that ends the loop of GetAllActivities after a page was added.
ReachedEnd(acts) == Len(acts) < perPage

\* Faulty variant of GetAllActivities: a failed request returns the pages
\* fetched so far together with the error.
GetAllActivities_partial(all, p, net, acts) ==
    IF net # "ok"
    THEN [loop |-> FALSE, all |-> <<>>, page |-> p, result |-> all, err |-> net]
    ELSE IF Len(acts) = 0
    THEN [loop |-> FALSE, all |-> <<>>, page |-> p, result |-> all, err |-> "none"]
    ELSE IF Len(acts) < perPage
    THEN [loop |-> FALSE, all |-> <<>>, page |-> p + 1, result |-> all \o acts,
          err |-> "none"]
    ELSE [loop |-> TRUE, all |-> all \o acts, page |-> p + 1, result |-> <<>>,
          err |-> "none"]

\* Faulty variant of GetAllActivities: only an empty page ends the loop.
GetAllActivities_untilEmpty(all, p, net, acts) ==
    IF net # "ok"
    THEN [loop |-> FALSE, all |-> <<>>, page |-> p, result |-> <<>>, err |-> net]
    ELSE IF Len(acts) = 0
    THEN [loop |-> FALSE, all |-> <<>>, page |-> p, result |-> all, err |-> "none"]
    ELSE [loop |-> TRUE, all |-> all \o acts, page |-> p + 1, result |-> <<>>,
          err |-> "none"]

\* One iteration of the loop of GetAllActivities: the request for page p was
\* answered as net says, with the decoded page acts.  loop: the loop goes
\* on; otherwise result and err are what the function returns, and the
\* local allActivities is gone.
GetAllActivities(all, p, net, acts) ==
    IF net # "ok"
    THEN [loop |-> FALSE, all |-> <<>>, page |-> p, result |-> <<>>, err |-> net]
    ELSE IF Len(acts) = 0
    THEN [loop |-> FALSE, all |-> <<>>, page |-> p, result |-> all, err |-> "none"]
    ELSE IF ReachedEnd(acts)
    THEN [loop |-> FALSE, all |-> <<>>, page |-> p + 1, result |-> all \o acts,
          err |-> "none"]
    ELSE [loop |-> TRUE, all |-> all \o acts, page |-> p + 1, result |-> <<>>,
          err |-> "none"]

\* What the network does with a PUT: answered 200; refused (answered with
\* another status, or not delivered); or delivered and carried out with the
\* answer lost, which the client sees as a transport error.
UpdateOutcomes == {"ok", "status", "timeout"}

\* UpdateActivity(accessToken, activityID, update): the request sent and the
\* error returned.
UpdateActivity(id, update, net) ==
    [ID |-> id, body |-> MarshalUpdate(update),
     err |-> IF net = "ok" THEN "none" ELSE net]

\* ----------------------------------- the copies of the normalizer program
reachedEnd(acts) == Len(acts) < perPage

getAllActivities(all, p, net, acts) ==
    IF net # "ok"
    THEN [loop |-> FALSE, all |-> <<>>, page |-> p, result |-> <<>>, err |-> net]
    ELSE IF Len(acts) = 0
    THEN [loop |-> FALSE, all |-> <<>>, page |-> p, result |-> all, err |-> "none"]
    ELSE IF reachedEnd(acts)
    THEN [loop |-> FALSE, all |-> <<>>, page |-> p + 1, result |-> all \o acts,
          err |-> "none"]
    ELSE [loop |-> TRUE, all |-> all \o acts, page |-> p + 1, result |-> <<>>,
          err |-> "none"]

updateActivity(id, update, net) ==
    [ID |-> id, body |-> MarshalUpdate(update),
     err |-> IF net = "ok" THEN "none" ELSE net]

\* ------------------------------------------ the copies of the updater
getLatestActivity(net, acts) ==
    IF net # "ok" THEN [result |-> <<>>, err |-> net]
    ELSE IF Len(acts) = 0 THEN [result |-> <<>>, err |-> "notfound"]
    ELSE [result |-> << acts[1] >>, err |-> "none"]

updateActivityOfUpdater(id, update, net) ==
    [ID |-> id, body |-> MarshalUpdate(update),
     err |-> IF net = "ok" THEN "none" ELSE net]

\* ---------------------------------------------------------- main: fetch
\* main: one request of GetAllActivities(config.AccessToken); an error is
\* fatal.
Main_GetAllActivities ==
    /\ pc = "fetch"
    /\ \E net \in HttpOutcomes :
         LET acts == ServerPage(perPage, page)
             r == IF entry = "normalizer"
                  THEN getAllActivities(allActivities, page, net, acts)
                  ELSE GetAllActivities(allActivities, page, net, acts)
         IN  /\ allActivities' = r.all
             /\ page' = r.page
             /\ activities' = r.result
             /\ fetchErr' = r.err
             /\ pc' = IF r.loop THEN "fetch"
                      ELSE IF r.err = "none" THEN "process" ELSE "fatal"
    /\ pageRequests' = Append(pageRequests, page)
    /\ UNCHANGED << inputVars, file, now, serverVars, config, latestRequests,
                    tokenVars, applyVars, report, fileReads, fileWrites,
                    runVars >>

\* main of the updater: getLatestActivity(config.AccessToken); an error is
\* fatal.
Main_GetLatestActivity ==
    /\ pc = "latest"
    /\ \E net \in HttpOutcomes :
         LET r == getLatestActivity(net, ServerPage(1, 1))
         IN  /\ activities' = r.result
             /\ fetchErr' = r.err
             /\ pc' = IF r.err = "none" THEN "process" ELSE "fatal"
    /\ latestRequests' = latestRequests + 1
    /\ UNCHANGED << inputVars, file, now, serverVars, config, page,
                    allActivities, pageRequests, tokenVars, applyVars, report,
                    fileReads, fileWrites, runVars >>

\* -------------------------------------------------------------- renamer
\* Faulty variant of Renamer_Select: the name is trimmed before the lookup.
Renamer_Select_trimmed(acts) ==
    SelectSeq(acts, LAMBDA a : TrimSpace(a.Name) \in DOMAIN nameMappings)

\* The loop that finds the activities to rename.
Renamer_Select(acts) ==
    SelectSeq(acts, LAMBDA a : a.Name \in DOMAIN nameMappings)

\* nameMappings[name]: the value of the key, or the zero value "".
Lookup(m, name) == IF name \in DOMAIN m THEN m[name] ELSE <<>>

\* Faulty variant of Renamer_Update: the update sets a sport type too.
Renamer_Update_retyped(activity) ==
    ActivityUpdate(Lookup(nameMappings, activity.Name), "Workout", "")

\* The update the apply loop builds for an activity.
Renamer_Update(activity) ==
    ActivityUpdate(Lookup(nameMappings, activity.Name), "", "")

\* main of the renamer after the fetch: find the activities to rename; stop
\* when there is none, and after the report when -dry-run is set.
Renamer_Find ==
    /\ pc = "process"
    /\ entry = "renamer"
    /\ LET q == Renamer_Select(activities)
       IN  /\ activitiesToUpdate' = q
           /\ pc' = IF Len(q) = 0 \/ dryRun THEN "done" ELSE "apply"
    /\ UNCHANGED << inputVars, file, now, serverVars, config, fetchVars,
                    tokenVars, idx, updateLog, report, fileReads, fileWrites,
                    runVars >>

\* Faulty variant of Renamer_Apply: a failed update ends the run.
Renamer_Apply_abort ==
    /\ pc = "apply"
    /\ entry = "renamer"
    /\ \E net \in UpdateOutcomes :
         LET activity == activitiesToUpdate[idx]
             r == [ID |-> activity.ID,
                   body |-> MarshalUpdate(ActivityUpdate(nameMappings[activity.Name], "", "")),
                   err |-> IF net = "ok" THEN "none" ELSE net]
         IN  /\ updateLog' = Append(updateLog, r)
             /\ serverEdits' = IF net \in {"ok", "timeout"}
                               THEN ServerPut(r.ID, r.body) ELSE serverEdits
             /\ pc' = IF r.err # "none" THEN "fatal"
                      ELSE IF idx < Len(activitiesToUpdate) THEN "apply" ELSE "done"
    /\ idx' = idx + 1
    /\ UNCHANGED << inputVars, file, now, serverCount, seed, config, fetchVars,
                    tokenVars, activitiesToUpdate, report, fileReads,
                    fileWrites, runVars >>

\* One iteration of the apply loop of the renamer: UpdateActivity for the
\* next activity; an error is logged and the loop continues.
Renamer_Apply ==
    /\ pc = "apply"
    /\ entry = "renamer"
    /\ \E net \in UpdateOutcomes :
         LET activity == activitiesToUpdate[idx]
             r == UpdateActivity(activity.ID, Renamer_Update(activity), net)
         IN  /\ updateLog' = Append(updateLog, r)
             /\ serverEdits' = IF net \in {"ok", "timeout"}
                               THEN ServerPut(r.ID, r.body) ELSE serverEdits
    /\ idx' = idx + 1
    /\ pc' = IF idx < Len(activitiesToUpdate) THEN "apply" ELSE "done"
    /\ UNCHANGED << inputVars, file, now, serverCount, seed, config, fetchVars,
                    tokenVars, activitiesToUpdate, report, fileReads,
                    fileWrites, runVars >>

\* ----------------------------------------------------------- normalizer
\* The loop that finds the activities with leading or trailing spaces.
Normalizer_Select(acts) ==
    SelectSeq(acts, LAMBDA a : TrimSpace(a.Name) # a.Name)

\* The update the apply loop builds for an activity.
Normalizer_Update(activity) == ActivityUpdate(TrimSpace(activity.Name), "", "")

\* main of the normalizer after the fetch.
Normalizer_Find ==
    /\ pc = "process"
    /\ entry = "normalizer"
    /\ LET q == Normalizer_Select(activities)
       IN  /\ activitiesToUpdate' = q
           /\ pc' = IF Len(q) = 0 \/ dryRun THEN "done" ELSE "apply"
    /\ UNCHANGED << inputVars, file, now, serverVars, config, fetchVars,
                    tokenVars, idx, updateLog, report, fileReads, fileWrites,
                    runVars >>

\* One iteration of the apply loop of the normalizer.
Normalizer_Apply ==
    /\ pc = "apply"
    /\ entry = "normalizer"
    /\ \E net \in UpdateOutcomes :
         LET activity == activitiesToUpdate[idx]
             r == updateActivity(activity.ID, Normalizer_Update(activity), net)
         IN  /\ updateLog' = Append(updateLog, r)
             /\ serverEdits' = IF net \in {"ok", "timeout"}
                               THEN ServerPut(r.ID, r.body) ELSE serverEdits
    /\ idx' = idx + 1
    /\ pc' = IF idx < Len(activitiesToUpdate) THEN "apply" ELSE "done"
    /\ UNCHANGED << inputVars, file, now, serverCount, seed, config, fetchVars,
                    tokenVars, activitiesToUpdate, report, fileReads,
                    fileWrites, runVars >>

\* -------------------------------------------------------------- updater
\* Faulty variant of Updater_Matches: the sport type is not compared.
Updater_Matches_nameOnly(activity) == activity.Name = Morning_Workout

\* The condition of the updater on the latest activity.
Updater_Matches(activity) ==
    activity.Name = Morning_Workout /\ activity.SportType = "Workout"

\* The update payload of the updater.
Updater_Update == ActivityUpdate(Pickup_Ice_Hockey, "IceSkate", "")

\* main of the updater after the fetch: update the latest activity when it
\* matches; an error of the update is fatal.
Updater_Check ==
    /\ pc = "process"
    /\ entry = "updater"
    /\ LET activity == activities[1]
       IN  IF Updater_Matches(activity)
           THEN \E net \in UpdateOutcomes :
                  LET r == updateActivityOfUpdater(activity.ID, Updater_Update, net)
                  IN  /\ updateLog' = Append(updateLog, r)
                      /\ serverEdits' = IF net \in {"ok", "timeout"}
                                        THEN ServerPut(r.ID, r.body)
                                        ELSE serverEdits
                      /\ pc' = IF r.err = "none" THEN "done" ELSE "fatal"
           ELSE /\ pc' = "done"
                /\ UNCHANGED << updateLog, serverEdits >>
    /\ UNCHANGED << inputVars, file, now, serverCount, seed, config, fetchVars,
                    tokenVars, activitiesToUpdate, idx, report, fileReads,
                    fileWrites, runVars >>

\* ------------------------------------------------------------- counters
\* The keys of a count map: the values of field f among the activities.
Keys(acts, f) == { acts[i][f] : i \in 1 .. Len(acts) }

\* Faulty variant of CountBy: names are trimmed before they are counted.
CountBy_trimmed(acts, f) ==
    LET key(i) == IF f = "Name" THEN TrimSpace(acts[i][f]) ELSE acts[i][f]
    IN  [k \in { key(i) : i \in 1 .. Len(acts) } |->
            Cardinality({ i \in 1 .. Len(acts) : key(i) = k })]

\* activityCounts[activity.Name]++ (f = "Name") and
\* sportTypeCounts[activity.SportType]++ (f = "SportType") over the list.
CountBy(acts, f) ==
    [k \in Keys(acts, f) |-> Cardinality({ i \in 1 .. Len(acts) : acts[i][f] = k })]

\* The slices the map can be turned into and sorted to: the map is ranged
\* over in any order and sort.Slice is not stable, so every order of the
\* entries with counts descending is a result.
SortedCounts(m) ==
    LET n == Cardinality(DOMAIN m)
    IN  { [i \in 1 .. n |-> [Name |-> o[i], Count |-> m[o[i]]]] :
            o \in { o \in [1 .. n -> DOMAIN m] :
                      /\ \A i, j \in 1 .. n : i # j => o[i] # o[j]
                      /\ \A i, j \in 1 .. n : i < j => m[o[i]] >= m[o[j]] } }

\* The name as printed: spaces shown as a mid dot, an arrow before a name
\* that starts with a space and after one that ends with a space.
Visualize(name) ==
    LET dotted == [i \in 1 .. Len(name) |-> IF name[i] = " " THEN "MIDDOT" ELSE name[i]]
        pre    == IF Len(name) > 0 /\ name[1] = " " THEN << "RARROW" >> ELSE <<>>
        post   == IF Len(name) > 0 /\ name[Len(name)] = " " THEN << "LARROW" >> ELSE <<>>
    IN  pre \o dotted \o post

PrintNames(counts) ==
    [i \in 1 .. Len(counts) |->
        [Name |-> Visualize(counts[i].Name), Count |-> counts[i].Count]]

\* main of the counter after the fetch: count by name, sort, print.
Counter_Count ==
    /\ pc = "process"
    /\ entry = "counter"
    /\ \E counts \in SortedCounts(CountBy(activities, "Name")) :
         report' = [names |-> PrintNames(counts), sports |-> <<>>]
    /\ pc' = "done"
    /\ UNCHANGED << inputVars, file, now, serverVars, config, fetchVars,
                    tokenVars, applyVars, fileReads, fileWrites, runVars >>

\* main of the extended counter after the fetch: count by name and by sport
\* type, sort both, print both.
CounterExt_Count ==
    /\ pc = "process"
    /\ entry = "counterExt"
    /\ \E nameCounts \in SortedCounts(CountBy(activities, "Name")),
          sportTypeCountsList \in SortedCounts(CountBy(activities, "SportType")) :
         report' = [names |-> PrintNames(nameCounts), sports |-> sportTypeCountsList]
    /\ pc' = "done"
    /\ UNCHANGED << inputVars, file, now, serverVars, config, fetchVars,
                    tokenVars, applyVars, fileReads, fileWrites, runVars >>

\* ---------------------------------------------------------- environment
\* The clock advances while a program runs.
Tick ==
    /\ pc \notin {"done", "fatal"}
    /\ now < MaxTime
    /\ now' = now + 1
    /\ UNCHANGED << inputVars, file, serverVars, pc, config, fetchVars,
                    tokenVars, applyVars, report, fileReads, fileWrites,
                    runVars >>

\* The same command line is run again, against the same config file and the
\* same server.
Rerun ==
    /\ pc \in {"done", "fatal"}
    /\ runNo < MaxRuns
    /\ runNo' = runNo + 1
    /\ lastRun' = [entry |-> entry, dryRun |-> dryRun,
                   applied |-> (pc = "done" /\ fetchErr = "none"
                                /\ Len(updateLog) = Len(activitiesToUpdate)),
                   queued |-> Len(activitiesToUpdate),
                   failed |-> { updateLog[i].ID : i \in
                                 { j \in 1 .. Len(updateLog) : updateLog[j].err # "none" } }]
    /\ pc' = Fresh.pc
    /\ config' = Fresh.config
    /\ page' = Fresh.page
    /\ allActivities' = Fresh.allActivities
    /\ activities' = Fresh.activities
    /\ activitiesToUpdate' = Fresh.activitiesToUpdate
    /\ idx' = Fresh.idx
    /\ report' = Fresh.report
    /\ tokenPosts' = Fresh.tokenPosts
    /\ ensurePre' = Fresh.ensurePre
    /\ ensureErr' = Fresh.ensureErr
    /\ ensureAt' = Fresh.ensureAt
    /\ tokenAnswer' = Fresh.tokenAnswer
    /\ pageRequests' = Fresh.pageRequests
    /\ latestRequests' = Fresh.latestRequests
    /\ fetchErr' = Fresh.fetchErr
    /\ updateLog' = Fresh.updateLog
    /\ fileReads' = Fresh.fileReads
    /\ fileWrites' = Fresh.fileWrites
    /\ UNCHANGED << inputVars, file, now, serverVars >>

Next ==
    \/ Main_LoadConfig
    \/ Main_EnsureValidToken
    \/ Main_SaveConfig
    \/ Main_GetAllActivities
    \/ Main_GetLatestActivity
    \/ Renamer_Find
    \/ Renamer_Apply
    \/ Normalizer_Find
    \/ Normalizer_Apply
    \/ Updater_Check
    \/ Counter_Count
    \/ CounterExt_Count
    \/ Tick

Spec == Init /\ [][Next]_vars

\* Two invocations in a row.  The first run finds a config file as the
\* README describes it or one with a token still valid, and a server with at
\* most one full page.
InitTwice ==
    /\ Init
    /\ file \in { [ok |-> TRUE, cfg |-> Config("id", "secret", "r0", "", 0)],
                  [ok |-> TRUE, cfg |-> Config("id", "secret", "r0", "a0", MaxTime + 1)] }
    /\ apiKey = ""
    /\ serverCount \in {47, perPage + 47}

NextTwice == Next \/ Rerun

SpecTwice == InitTwice /\ [][NextTwice]_vars

\* ===================================================================
\* Properties
\* ===================================================================

\* An Activity Client request (list page, list latest, update) is sent in
\* this step.
ApiCallIssued ==
    \/ Len(pageRequests') = Len(pageRequests) + 1
    \/ latestRequests' = latestRequests + 1
    \/ Len(updateLog') = Len(updateLog) + 1

\* C1: whenever an Activity Client request is sent, the access token of the
\* record is non-empty and the clock is strictly before the record's expiry.
C1_TokenValidAtEveryCall ==
    [][ApiCallIssued => (config.AccessToken # "" /\ now < config.ExpiresAt)]_vars

\* EnsureValidToken has returned in this run.
EnsureReturned == ensureErr # "notrun"

\* The record EnsureValidToken received had a usable token: non-empty, and
\* expiring strictly after the time the function read.
HadValidToken == ensurePre.AccessToken # "" /\ ensureAt < ensurePre.ExpiresAt

Triple(c) == << c.AccessToken, c.RefreshToken, c.ExpiresAt >>

\* C2: given a record with a non-empty, unexpired access token,
\* EnsureValidToken sends nothing to the token endpoint, returns no error
\* and leaves all five fields of the record as they were.
C2_ValidTokenIsNoOp ==
    (EnsureReturned /\ HadValidToken) =>
        /\ tokenPosts = 0
        /\ tokenAnswer = NoAnswer
        /\ ensureErr = "none"
        /\ config = ensurePre

C2_Witness ==
    /\ EnsureReturned
    /\ HadValidToken
    /\ pc = "save"
    /\ config.AccessToken = "a0"

\* C3 as stated: given a record with an empty or expired access token,
\* EnsureValidToken sends exactly one refresh request, and then the three
\* token fields are all from the response or all as before.
C3_AlwaysOneRequest ==
    (EnsureReturned /\ ~HadValidToken) =>
        /\ tokenPosts = 1
        /\ \/ Triple(config) = Triple(tokenAnswer.body)
           \/ Triple(config) = Triple(ensurePre)

\* C3 amended: given a record with an empty or expired access token,
\* EnsureValidToken sends exactly one refresh request when client id and
\* client secret are both non-empty and none when one of them is empty; on
\* success the three token fields are all those of the response, on failure
\* all three are as before.
C3_OneRequestWithCredentials ==
    (EnsureReturned /\ ~HadValidToken) =>
        /\ tokenPosts = IF ensurePre.ClientID # "" /\ ensurePre.ClientSecret # ""
                        THEN 1 ELSE 0
        /\ ensureErr = "none" =>
              /\ tokenAnswer.net = "ok"
              /\ Triple(config) = Triple(tokenAnswer.body)
        /\ ensureErr # "none" => Triple(config) = Triple(ensurePre)
        /\ config.ClientID = ensurePre.ClientID
        /\ config.ClientSecret = ensurePre.ClientSecret

C3_Witness ==
    /\ EnsureReturned
    /\ ~HadValidToken
    /\ ensureErr = "none"
    /\ tokenPosts = 1
    /\ Triple(ensurePre) = << "a0", "r0", 2 >>
    /\ Triple(config) = << "a1", "r1", MaxTime + 1 >>

\* C4: a refresh with an empty client id or client secret fails with the
\* configuration error and sends nothing to the token endpoint; a refresh
\* answered with a status other than 200 fails with the auth error; in both
\* cases access token, refresh token and expiry are as before the call.
C4_RefreshFailures ==
    (EnsureReturned /\ ~HadValidToken) =>
        /\ (ensurePre.ClientID = "" \/ ensurePre.ClientSecret = "") =>
              /\ ensureErr = "config"
              /\ tokenPosts = 0
              /\ tokenAnswer = NoAnswer
              /\ pc = "fatal"
              /\ Triple(config) = Triple(ensurePre)
        /\ tokenAnswer.net = "status" =>
              /\ ensureErr = "auth"
              /\ tokenPosts = 1
              /\ pc = "fatal"
              /\ Triple(config) = Triple(ensurePre)

C4_Witness ==
    /\ EnsureReturned
    /\ ~HadValidToken
    /\ ensurePre.ClientID # ""
    /\ ensurePre.ClientSecret = ""
    /\ ensureErr = "config"
    /\ tokenPosts = 0

\* The sizes of the pages the server serves, and the first page with fewer
\* than perPage activities.
PageSize(p) == Len(ServerPage(perPage, p))

FirstShortPage ==
    CHOOSE p \in 1 .. (MaxFullPages + 2) :
        /\ PageSize(p) < perPage
        /\ \A q \in 1 .. (p - 1) : PageSize(q) = perPage

RECURSIVE ConcatPages(_, _)
ConcatPages(p, last) ==
    IF p > last THEN <<>> ELSE ServerPage(perPage, p) \o ConcatPages(p + 1, last)

\* The list fetch has returned its list to main, which has not used it yet.
ListReturned == pc = "process" /\ entry # "updater"

\* C5: when every page request succeeds, the list fetch requests pages
\* 1, 2, 3, ... in order and returns the concatenation of the pages up to
\* and including the first one with fewer than 200 activities; pages of
\* sizes 200, 200, 47 give 447 activities and 200, 200, 200, 0 give 600.
C5_ListAllConcatenatesPages ==
    ListReturned =>
        LET k == FirstShortPage
            sizes == [i \in 1 .. k |-> PageSize(i)]
        IN  /\ pageRequests = [i \in 1 .. k |-> i]
            /\ activities = ConcatPages(1, k)
            /\ sizes = << 200, 200, 47 >> => Len(activities) = 447
            /\ sizes = << 200, 200, 200, 0 >> => Len(activities) = 600

C5_Witness ==
    /\ ListReturned
    /\ pageRequests = << 1, 2, 3, 4 >>
    /\ Len(activities) = 600
    /\ activities[1].ID # activities[600].ID

\* C6: when a page request of the list fetch fails, main receives the error
\* and no activity at all, the failed page is the last one requested, and
\* every page was requested once.
C6_PageFailureAbortsFetch ==
    (entry # "updater" /\ fetchErr # "none") =>
        /\ fetchErr \in {"transport", "status", "decode"}
        /\ activities = <<>>
        /\ pc = "fatal"
        /\ pageRequests = [i \in 1 .. page |-> i]
        /\ \A q \in 1 .. (page - 1) : PageSize(q) = perPage
        /\ activitiesToUpdate = <<>>
        /\ updateLog = <<>>

C6_Witness ==
    /\ entry = "renamer"
    /\ fetchErr = "status"
    /\ page = 3
    /\ pageRequests = << 1, 2, 3 >>
    /\ activities = <<>>

Ids(q) == [i \in 1 .. Len(q) |-> q[i].ID]

\* C7: in the renamer and the normalizer, a run with -dry-run (the default)
\* sends no update; a run with -dry-run=false sends one update for each
\* queued activity, in the order of the queue, whether the updates before
\* it failed or not.
C7_DryRunAndApplyLoop ==
    entry \in {"renamer", "normalizer"} =>
        /\ dryRun => updateLog = <<>>
        /\ Ids(updateLog) = SubSeq(Ids(activitiesToUpdate), 1, Len(updateLog))
        /\ pc = "apply" => (Len(updateLog) = idx - 1 /\ idx <= Len(activitiesToUpdate))
        /\ (pc = "done" /\ ~dryRun) => Ids(updateLog) = Ids(activitiesToUpdate)
        /\ pc = "fatal" => updateLog = <<>>

C7_Witness ==
    /\ entry = "renamer"
    /\ ~dryRun
    /\ pc = "done"
    /\ Len(activitiesToUpdate) = 2
    /\ Len(updateLog) = 2
    /\ updateLog[1].err = "status"
    /\ updateLog[2].err = "none"

\* The renamer has built its queue.
RenamerQueued == entry = "renamer" /\ pc \in {"apply", "done"}

\* C8: the renamer queues a fetched activity exactly when its name is a key
\* of the table, compared as it is: "Workout" is queued and sent the name
\* "Gym Workout", "workout" is not queued, and every update sent carries
\* the table's value for the current name.
C8_RenamerQueuesExactKeys ==
    RenamerQueued =>
        /\ activitiesToUpdate =
              SelectSeq(activities, LAMBDA a :
                  a.Name \in { Pickup_ice_Hockey, Private_Training_Workout,
                               Workout_w_Trainer, Workout, Gym_Workou })
        /\ \A i \in 1 .. Len(activitiesToUpdate) :
              activitiesToUpdate[i].Name # workout_lower
        /\ \A i \in 1 .. Len(updateLog) :
              /\ updateLog[i].ID = activitiesToUpdate[i].ID
              /\ updateLog[i].body = [k \in {"name"} |-> nameMappings[activitiesToUpdate[i].Name]]
              /\ activitiesToUpdate[i].Name = Workout => updateLog[i].body["name"] = Gym_Workout

C8_Witness ==
    /\ RenamerQueued
    /\ pc = "done"
    /\ \E i \in 1 .. Len(activities) : activities[i].Name = workout_lower
    /\ Len(updateLog) = 2
    /\ activitiesToUpdate[2].Name = Workout
    /\ updateLog[2].body["name"] = Gym_Workout

\* The second of two runs of the renamer with -dry-run=false has built its
\* queue.
SecondRenamerRun ==
    /\ runNo = 2
    /\ RenamerQueued
    /\ lastRun.entry = "renamer"
    /\ ~lastRun.dryRun

\* C9 as stated: after a run of the renamer with -dry-run=false that went
\* through its whole queue, a second such run queues nothing.
C9_SecondRunQueuesNothing ==
    (SecondRenamerRun /\ lastRun.applied) => activitiesToUpdate = <<>>

\* C9 amended: when the first of two runs of the renamer with
\* -dry-run=false has gone through its whole queue, the second run queues
\* only activities whose update failed in the first run, and so none when
\* every update of the first run succeeded.
C9_SecondRunQueuesOnlyFailed ==
    (SecondRenamerRun /\ lastRun.applied) =>
        /\ { activitiesToUpdate[i].ID : i \in 1 .. Len(activitiesToUpdate) }
              \subseteq lastRun.failed
        /\ lastRun.failed = {} => activitiesToUpdate = <<>>

C9_Witness ==
    /\ SecondRenamerRun
    /\ lastRun.applied
    /\ lastRun.queued = 2
    /\ lastRun.failed = {}
    /\ pc = "done"
    /\ activitiesToUpdate = <<>>

\* C10: no update is sent whose JSON body has none of the fields name,
\* sport_type, description.
C10_NoEmptyUpdate ==
    \A i \in 1 .. Len(updateLog) : DOMAIN updateLog[i].body # {}

\* Nothing after the check of the refresh token has been executed.
NothingAfterLoad ==
    /\ ensureErr = "notrun"
    /\ tokenPosts = 0
    /\ fileWrites = 0
    /\ pageRequests = <<>>
    /\ latestRequests = 0
    /\ activities = <<>>
    /\ activitiesToUpdate = <<>>
    /\ updateLog = <<>>
    /\ report = Fresh.report

\* Nothing after EnsureValidToken has been executed.
NothingAfterEnsure ==
    /\ fileWrites = 0
    /\ pageRequests = <<>>
    /\ latestRequests = 0
    /\ activities = <<>>
    /\ activitiesToUpdate = <<>>
    /\ updateLog = <<>>
    /\ report = Fresh.report

\* Nothing after the fetch has been executed.
NothingAfterFetch ==
    /\ activities = <<>>
    /\ activitiesToUpdate = <<>>
    /\ updateLog = <<>>
    /\ report = Fresh.report

\* The run ended before EnsureValidToken: the refresh token was missing.
MissingRefreshToken == pc = "fatal" /\ ensureErr = "notrun"

\* The failures of the startup stages end the run where they happen.
StartupFailureIsFinal ==
    /\ MissingRefreshToken => (config.RefreshToken = "" /\ NothingAfterLoad)
    /\ ensureErr \notin {"none", "notrun"} => (pc = "fatal" /\ NothingAfterEnsure)
    /\ fetchErr # "none" => (pc = "fatal" /\ NothingAfterFetch)

\* The step is one of main, not one of the clock.
MainMoves == now' = now

\* A step of main.  After a fatal error there is none; the run ends at the
\* check of the refresh token exactly when there is none; a failed load is
\* replaced by the empty record (with the -api-key override) and goes on to
\* the check of the refresh token; a save, failed or not, goes on to the
\* fetch with the record in memory.
StartupStep ==
    /\ pc = "fatal" => UNCHANGED vars
    /\ (pc = "load" /\ MainMoves) =>
          (pc' = "fatal" <=> config'.RefreshToken = "")
    /\ (pc = "load" /\ ~file.ok /\ MainMoves) =>
          /\ config' = [EmptyConfig EXCEPT !.RefreshToken = apiKey]
          /\ pc' = IF apiKey = "" THEN "fatal" ELSE "ensure"
    /\ (pc = "save" /\ MainMoves) =>
          /\ pc' = IF entry = "updater" THEN "latest" ELSE "fetch"
          /\ config' = config
          /\ file' \in { file, [ok |-> TRUE, cfg |-> config] }

\* C11: a missing refresh token, a failed token refresh and a failed fetch
\* each end the run at once, and nothing of the later stages (save, fetch,
\* queueing, update, report) has been or will be executed; a failed load
\* and a failed save do not end the run, which goes on to the next stage
\* with the record in memory.
C11_StartupFailuresHalt ==
    [](StartupFailureIsFinal) /\ [][StartupStep]_vars

\* The save failed (the file does not hold the refreshed record), the run
\* went on to the fetch, and the fetch failed on its second page and ended
\* the run.
C11_Witness ==
    /\ fileWrites = 1
    /\ file.cfg # config
    /\ config.AccessToken = "a1"
    /\ fetchErr = "status"
    /\ pageRequests = << 1, 2 >>
    /\ pc = "fatal"

\* main of the updater has called getLatestActivity.
UpdaterFetched ==
    /\ entry = "updater"
    /\ \/ pc \in {"process", "done"}
       \/ pc = "fatal" /\ fileWrites = 1

\* main of the updater is past its if statement on the latest activity.
UpdaterChecked ==
    /\ entry = "updater"
    /\ \/ pc = "done"
       \/ pc = "fatal" /\ latestRequests = 1 /\ fetchErr = "none"

\* C12: the updater never requests a page of 200; once it has reached its
\* fetch it has sent exactly one list request, with page size 1, and it
\* sends at most one update.  It sends the update exactly when the latest
\* activity is named "Morning Workout" with sport type "Workout"; the body
\* is always the name "Pickup Ice Hockey" and the sport type "IceSkate",
\* whatever the -dry-run default is; an empty list ends the run with the
\* not-found error and without an update.
C12_UpdaterOneListOneUpdate ==
    entry = "updater" =>
        /\ pageRequests = <<>>
        /\ latestRequests <= 1
        /\ Len(updateLog) <= 1
        /\ latestRequests = 1 <=> UpdaterFetched
        /\ (UpdaterFetched /\ fetchErr = "none") =>
              activities = << OriginalActivity(1) >>
        /\ ~UpdaterChecked => updateLog = <<>>
        /\ UpdaterChecked =>
              (Len(updateLog) = 1 <=>
                  (activities[1].Name = Morning_Workout
                   /\ activities[1].SportType = "Workout"))
        /\ \A i \in 1 .. Len(updateLog) :
              /\ updateLog[i].ID = activities[1].ID
              /\ updateLog[i].body =
                    [k \in {"name", "sport_type"} |->
                        IF k = "name" THEN Pickup_Ice_Hockey ELSE "IceSkate"]
        /\ (UpdaterFetched /\ serverCount = 0) =>
              /\ fetchErr # "none"
              /\ pc = "fatal"
        /\ fetchErr = "notfound" =>
              /\ serverCount = 0
              /\ pc = "fatal"
              /\ updateLog = <<>>

\* The latest activity was a "Morning Workout" of sport type "Workout" and
\* the one update was sent and carried out.
C12_Witness ==
    /\ entry = "updater"
    /\ dryRun
    /\ pc = "done"
    /\ latestRequests = 1
    /\ Len(updateLog) = 1
    /\ updateLog[1].err = "none"
    /\ activities[1].Name = Morning_Workout
    /\ ServerActivity(1).Name = Pickup_Ice_Hockey
    /\ ServerActivity(1).SportType = "IceSkate"

\* A counter has printed its report.
CounterDone == entry \in {"counter", "counterExt"} /\ pc = "done"

\* The number of fetched activities whose field f is exactly k.
Occurrences(f, k) ==
    Cardinality({ i \in 1 .. Len(activities) : activities[i][f] = k })

\* The orders in which the elements of a set can be listed, each once.
Orderings(S) ==
    { o \in [1 .. Cardinality(S) -> S] :
        \A i, j \in 1 .. Cardinality(S) : i # j => o[i] # o[j] }

RECURSIVE SumCounts(_)
SumCounts(lines) ==
    IF lines = <<>> THEN 0 ELSE Head(lines).Count + SumCounts(Tail(lines))

NonIncreasing(lines) ==
    \A j \in 1 .. (Len(lines) - 1) : lines[j].Count >= lines[j + 1].Count

\* C13: the counters print one line for every distinct raw name among the
\* fetched activities (names that differ only in a leading space or in case
\* have lines of their own), the count of a line is the number of fetched
\* activities with exactly that name, the counts add up to the number of
\* fetched activities, the lines are in non-increasing order of count, and
\* the printed form of the name takes no part in the grouping.  The sport
\* types of the extended counter are grouped in the same way.
C13_CounterGroupsByExactName ==
    CounterDone =>
        LET names  == { activities[i].Name : i \in 1 .. Len(activities) }
            sports == { activities[i].SportType : i \in 1 .. Len(activities) }
        IN  /\ Len(report.names) = Cardinality(names)
            /\ \E o \in Orderings(names) :
                  report.names =
                      [j \in 1 .. Cardinality(names) |->
                          [Name |-> Visualize(o[j]),
                           Count |-> Occurrences("Name", o[j])]]
            /\ SumCounts(report.names) = Len(activities)
            /\ NonIncreasing(report.names)
            /\ { Workout, Workout_leading, workout_lower } \subseteq names =>
                  \A k \in { Workout, Workout_leading, workout_lower } :
                      \E j \in 1 .. Len(report.names) :
                          /\ report.names[j].Name = Visualize(k)
                          /\ report.names[j].Count = 1
            /\ entry = "counter" => report.sports = <<>>
            /\ entry = "counterExt" =>
                  /\ \E o \in Orderings(sports) :
                        report.sports =
                            [j \in 1 .. Cardinality(sports) |->
                                [Name |-> o[j],
                                 Count |-> Occurrences("SportType", o[j])]]
                  /\ SumCounts(report.sports) = Len(activities)
                  /\ NonIncreasing(report.sports)

\* 47 activities, of which one is named "Workout", one "workout" and one
\* " Workout": four lines, the three names with a count of 1 each.
C13_Witness ==
    /\ CounterDone
    /\ Len(activities) = 47
    /\ Len(report.names) = 4
    /\ report.names[1] = [Name |-> Run, Count |-> 44]
    /\ report.names[2] =
          [Name |-> << "RARROW", "MIDDOT", "W", "o", "r", "k", "o", "u", "t" >>,
           Count |-> 1]
    /\ report.names[3].Name = workout_lower
    /\ report.names[4].Name = Workout

\* The run is over.
RunEnded == pc \in {"done", "fatal"}

\* C14 as stated: in every run the config file is read exactly once and
\* written exactly once.
C14_ReadOnceWrittenOnce ==
    RunEnded => (fileReads = 1 /\ fileWrites = 1)

\* C14 amended: in every run the config file is read exactly once, at the
\* start; it is written exactly once in a run in which EnsureValidToken
\* returned without error, whether or not it refreshed the token, and the
\* write comes before the first list request; it is not written in a run
\* that ended for a missing refresh token or a failed refresh.
C14_WrittenOnceAfterTokenStage ==
    /\ fileReads = (IF pc = "load" THEN 0 ELSE 1)
    /\ fileWrites = (IF pc \in {"load", "ensure", "save"} \/ ensureErr # "none"
                      THEN 0 ELSE 1)
    /\ RunEnded =>
          /\ fileReads = 1
          /\ fileWrites = (IF ensureErr = "none" THEN 1 ELSE 0)
    /\ fileWrites = 0 => (pageRequests = <<>> /\ latestRequests = 0)

\* A run that found a valid token, sent nothing to the token endpoint,
\* wrote the record as it had read it, and ran to its end.
C14_Witness ==
    /\ pc = "done"
    /\ ensureErr = "none"
    /\ tokenPosts = 0
    /\ fileReads = 1
    /\ fileWrites = 1
    /\ file = [ok |-> TRUE, cfg |-> config]

\* The normalizer has built its queue.
NormalizerQueued == entry = "normalizer" /\ pc \in {"apply", "done"}

\* The name starts or ends with a white-space character.
HasOuterSpace(name) ==
    name # <<>> /\ (IsSpace(name[1]) \/ IsSpace(name[Len(name)]))

\* C15: the normalizer queues a fetched activity exactly when its name
\* starts or ends with white space, every update it sends is for the next
\* queued activity and its body is the name without the leading and
\* trailing white space (" Workout" is sent "Workout", "Pickup ice Hockey "
\* is sent "Pickup ice Hockey"), and an activity whose name has no leading
\* or trailing white space is neither queued nor changed on the server.
C15_NormalizerQueuesAndTrims ==
    NormalizerQueued =>
        /\ activitiesToUpdate =
              SelectSeq(activities, LAMBDA a : HasOuterSpace(a.Name))
        /\ \A i \in 1 .. Len(updateLog) :
              LET raw == activitiesToUpdate[i].Name
              IN  /\ updateLog[i].ID = activitiesToUpdate[i].ID
                  /\ updateLog[i].body = [k \in {"name"} |-> TrimSpace(raw)]
                  /\ raw = Workout_leading => updateLog[i].body["name"] = Workout
                  /\ raw = Hockey_trailing =>
                        updateLog[i].body["name"] = Pickup_ice_Hockey
        /\ \A i \in 1 .. Len(activities) :
              ~HasOuterSpace(activities[i].Name) =>
                  /\ \A j \in 1 .. Len(activitiesToUpdate) :
                        activitiesToUpdate[j].ID # activities[i].ID
                  /\ ServerActivity(activities[i].ID) = activities[i]

\* floor(N/200)+1 for the N activities the server holds.
ExpectedRequests == (serverCount \div 200) + 1

\* C16: against a server that holds N activities, the list fetch asks for
\* pages 1, 2, ... in increasing order, each once, and never for more than
\* floor(N/200)+1 pages; while the loop runs fewer than that were asked for,
\* and when the fetch returns its list exactly pages 1..floor(N/200)+1 were
\* asked for: one page when N = 0, and a last, empty page when N is a
\* positive multiple of 200.
C16_PageRequestCount ==
    entry # "updater" =>
        /\ \A i \in 1 .. Len(pageRequests) : pageRequests[i] = i
        /\ Len(pageRequests) <= ExpectedRequests
        /\ pc = "fetch" =>
              /\ Len(pageRequests) < ExpectedRequests
              /\ page = Len(pageRequests) + 1
        /\ (pc \in {"process", "apply", "done"} \/ (pc = "fatal" /\ fetchErr = "none" /\ pageRequests # <<>>)) =>
              /\ Len(pageRequests) = ExpectedRequests
              /\ Len(activities) = serverCount
        /\ (ListReturned /\ serverCount = 0) => pageRequests = << 1 >>
        /\ (ListReturned /\ serverCount > 0 /\ serverCount % 200 = 0) =>
              /\ Len(ServerPage(200, pageRequests[Len(pageRequests)])) = 0
              /\ Len(pageRequests) = (serverCount \div 200) + 1

\* 400 activities: pages 1 and 2 are full, page 3 is asked for and is empty.
C16_Witness ==
    /\ ListReturned
    /\ serverCount = 400
    /\ pageRequests = << 1, 2, 3 >>
    /\ Len(activities) = 400
    /\ Len(ServerPage(200, 3)) = 0

\* The config file could not be loaded in this run: it is missing or
\* unparsable, and this run has not written it.
LoadFailed == pc # "load" /\ ~file.ok

\* C17: when the config file cannot be loaded, main goes on with the empty
\* record (plus the -api-key value as refresh token); the run ends at the
\* check of the refresh token when -api-key was not given, and with the
\* configuration error of RefreshToken when it was; nothing is sent to the
\* token endpoint, no list, latest or update request is sent, and the
\* config file is not written.
C17_LoadFailureEndsBeforeAnyCall ==
    LoadFailed =>
        /\ fileReads = 1
        /\ config = Config("", "", apiKey, "", 0)
        /\ pc \in {"ensure", "fatal"}
        /\ pc = "ensure" => (apiKey # "" /\ ensureErr = "notrun")
        /\ pc = "fatal" =>
              ensureErr = (IF apiKey = "" THEN "notrun" ELSE "config")
        /\ tokenPosts = 0
        /\ tokenAnswer = NoAnswer
        /\ fileWrites = 0
        /\ pageRequests = <<>>
        /\ latestRequests = 0
        /\ updateLog = <<>>

\* No config file, -api-key given: the run ended with the configuration
\* error of the refresh.
C17_Witness ==
    /\ LoadFailed
    /\ apiKey = "key"
    /\ pc = "fatal"
    /\ ensureErr = "config"
    /\ ensurePre.RefreshToken = "key"
    /\ ensurePre.ClientID = ""

\* A run of the renamer or the normalizer with -dry-run=false.
ApplyRun == entry \in {"renamer", "normalizer"} /\ ~dryRun

QueuedIds == { activitiesToUpdate[i].ID : i \in 1 .. Len(activitiesToUpdate) }

\* The updates sent for an activity whose result is one of errs.
UpdatesOf(id, errs) ==
    { i \in 1 .. Len(updateLog) : updateLog[i].ID = id /\ updateLog[i].err \in errs }

\* Sport type and description of every activity, and every field of every
\* activity that is not queued, are as before the run: the sample
\* activities no PUT was carried out for are as they were, and every
\* activity a PUT was carried out for is queued and has its id, sport type
\* and description as before.
OnlyQueuedNamesChange ==
    /\ \A pos \in (1 .. serverCount) \ DOMAIN serverEdits :
          pos \in {1, 2, serverCount} =>
              ServerActivity(pos) = OriginalActivity(pos)
    /\ \A pos \in DOMAIN serverEdits :
          /\ pos \in QueuedIds
          /\ ServerActivity(pos).ID = OriginalActivity(pos).ID
          /\ ServerActivity(pos).SportType = OriginalActivity(pos).SportType
          /\ ServerActivity(pos).Description = OriginalActivity(pos).Description

====
